---- MODULE Spec2Model ----
(***************************************************************************)
(* A model of SceneManager (7-1_FinalProjectMilestones/Source/             *)
(* SceneManager.cpp): the texture slot table, the material list, the       *)
(* shader-parameter binder and the scene composer.                         *)
(*                                                                         *)
(* External collaborators are modelled by what the code asks of them:      *)
(*   - stb_image: stbi_load gives a pixel buffer and a channel count, or   *)
(*     NULL;                                                               *)
(*   - OpenGL: the set of texture names in use (glGenTextures), the active *)
(*     texture unit and the texture bound to each unit;                    *)
(*   - ShaderManager: a keyed store of uniform values, last write wins.    *)
(* Floats are written in hundredths (0.5 is 50).                           *)
(***************************************************************************)
EXTENDS Integers, Sequences, FiniteSets

VARIABLES m_textureIDs, m_loadedTextures, m_objectMaterials, m_pShaderManager,
          glTextures, glActiveUnit, glUnits, shader, overrun,
          stbImages, m_basicMeshes,
          last, log, loadedTags, assigned, createdByLoad

vars == <<m_textureIDs, m_loadedTextures, m_objectMaterials, m_pShaderManager,
          glTextures, glActiveUnit, glUnits, shader, overrun,
          stbImages, m_basicMeshes,
          last, log, loadedTags, assigned, createdByLoad>>

(***************************************************************************)
(* Bounds of the model.                                                    *)
(***************************************************************************)
\* loads explored by the general specification (Spec)
MaxLoads == 3
\* texture names the renderer hands out before exploration stops
MaxNames == 5
\* calls of DefineObjectMaterials explored
MaxDefines == 2
\* texture names generated and never registered, in SpecCapacity
MaxLeaked == 1

(***************************************************************************)
(* Program constants.                                                      *)
(***************************************************************************)
\* size of the m_textureIDs table ("There are up to 16 slots")
MaxTextures == 16

NULL == "NULL"
Slots == 0 .. (MaxTextures - 1)

\* tags handed to CreateGLTexture / SetShaderTexture
TextureTags == {"stone", "bush"}
\* tags handed to SetShaderTexture: the loadable ones and one never loaded
TextureTagArgs == TextureTags \cup {"sky"}

\* the tags LoadSceneTextures loads, in its order
SceneTextureTags == <<"stone", "bush", "ground", "sky">>

\* image files by what the decoder makes of them
ImageFiles == {"rgb.jpg", "rgba.png", "gray.png", "absent.jpg"}

\* stbi_load: the number of channels of the decoded image, 0 for a NULL image
stbi_load(filename) ==
    CASE filename = "rgb.jpg"  -> 3
      [] filename = "rgba.png" -> 4
      [] filename = "gray.png" -> 1
      [] OTHER                 -> 0

\* glGenTextures(1, &id): a name not in use; names are handed out in order
SetMax(S) == CHOOSE x \in S : \A y \in S : y <= x
glGenTextures(names) == IF names = {} THEN 1 ELSE SetMax(names) + 1

(***************************************************************************)
(* The record of the last call, kept for stating the properties: which     *)
(* operation ran, its tag argument, what it returned (TRUE for a void      *)
(* operation), m_loadedTextures before it, the slot a load wrote (-1 when  *)
(* it wrote none) and the channel count the decoder reported.              *)
(***************************************************************************)
Call(op, tag, ret, pre, slot, channels) ==
    [op |-> op, tag |-> tag, ret |-> ret, pre |-> pre, slot |-> slot,
     channels |-> channels]

\* the uniforms of a program start at zero
ZeroVec3 == <<0, 0, 0>>
ZeroVec4 == <<0, 0, 0, 0>>
ShaderInit ==
    [model |-> <<>>, bUseTexture |-> FALSE, objectColor |-> ZeroVec4,
     objectTexture |-> 0,
     ambientColor |-> ZeroVec3, ambientStrength |-> 0, diffuseColor |-> ZeroVec3,
     specularColor |-> ZeroVec3, shininess |-> 0]

\* SceneManager::SceneManager: the table is empty, no material is defined,
\* the shader manager is the one the caller passed in, m_basicMeshes is a
\* new ShapeMeshes with no mesh loaded; no pixel buffer is held.
Init ==
    /\ m_textureIDs = [i \in Slots |-> [ID |-> 0, tag |-> ""]]
    /\ m_loadedTextures = 0
    /\ m_objectMaterials = <<>>
    /\ m_pShaderManager = "ShaderManager"
    /\ glTextures = {}
    /\ glActiveUnit = 0
    /\ glUnits = [u \in Slots |-> 0]
    /\ shader = ShaderInit
    /\ overrun = FALSE
    /\ stbImages = 0
    /\ m_basicMeshes = {}
    /\ last = Call("SceneManager", "", TRUE, 0, -1, 0)
    /\ log = <<>>
    /\ loadedTags = {}
    /\ assigned = [t \in TextureTags \cup {"ground", "sky"} |-> -1]
    /\ createdByLoad = {}

(***************************************************************************)
(* Texture registry.                                                       *)
(***************************************************************************)
\* CreateGLTexture with the entry registered before the channel count is
\* looked at: a load that then fails has already taken its slot
CreateGLTexture_RegistersFirst(filename, tag) ==
    LET colorChannels == stbi_load(filename)
        textureID == glGenTextures(glTextures)
    IN  /\ ~overrun
        /\ log' = <<>>
        /\ UNCHANGED <<m_objectMaterials, m_pShaderManager, shader, overrun,
                       glActiveUnit, m_basicMeshes>>
        /\ stbImages' = IF colorChannels \in {0, 3, 4} THEN stbImages
                        ELSE stbImages + 1
        /\ IF colorChannels = 0
           THEN /\ last' = Call("CreateGLTexture", tag, FALSE, m_loadedTextures, -1, 0)
                /\ UNCHANGED <<m_textureIDs, m_loadedTextures, glTextures,
                               glUnits, loadedTags, assigned, createdByLoad>>
           ELSE /\ glTextures' = glTextures \cup {textureID}
                /\ createdByLoad' = createdByLoad \cup {textureID}
                /\ m_textureIDs' =
                     [m_textureIDs EXCEPT ![m_loadedTextures] =
                         [ID |-> textureID, tag |-> tag]]
                /\ m_loadedTextures' = m_loadedTextures + 1
                /\ IF colorChannels \notin {3, 4}
                   THEN /\ glUnits' = [glUnits EXCEPT ![glActiveUnit] = textureID]
                        /\ last' = Call("CreateGLTexture", tag, FALSE,
                                        m_loadedTextures, -1, colorChannels)
                        /\ UNCHANGED <<loadedTags, assigned>>
                   ELSE /\ glUnits' = [glUnits EXCEPT ![glActiveUnit] = 0]
                        /\ loadedTags' = loadedTags \cup {tag}
                        /\ assigned' = [assigned EXCEPT ![tag] = m_loadedTextures]
                        /\ last' = Call("CreateGLTexture", tag, TRUE,
                                        m_loadedTextures, m_loadedTextures,
                                        colorChannels)

\* What a load reads and writes, as a record: the table and its counter,
\* the renderer's texture names and unit bindings, the pixel buffers held,
\* and the record kept for the properties.  past: the last load stored
\* past the end of the table.
RegistryNow ==
    [m_textureIDs |-> m_textureIDs, m_loadedTextures |-> m_loadedTextures,
     glTextures |-> glTextures, glUnits |-> glUnits, stbImages |-> stbImages,
     loadedTags |-> loadedTags, assigned |-> assigned,
     createdByLoad |-> createdByLoad,
     ret |-> TRUE, slot |-> -1, channels |-> 0, past |-> FALSE]

\* the body of CreateGLTexture(filename, tag), from the state st
CreateGLTextureIn(st, filename, tag) ==
    LET colorChannels == stbi_load(filename)
        textureID == glGenTextures(st.glTextures)
    IN  IF colorChannels = 0
        THEN \* image == NULL: "Could not load image", return false
             [st EXCEPT !.ret = FALSE, !.slot = -1, !.channels = 0]
        ELSE IF colorChannels \notin {3, 4}
        THEN \* the texture was generated and bound; return false before
             \* anything is registered, freed or unbound
             [st EXCEPT !.glTextures = @ \cup {textureID},
                        !.glUnits[glActiveUnit] = textureID,
                        !.createdByLoad = @ \cup {textureID},
                        !.stbImages = @ + 1,
                        !.ret = FALSE, !.slot = -1, !.channels = colorChannels]
        ELSE LET done ==
                   \* stbi_image_free(image), glBindTexture(GL_TEXTURE_2D, 0)
                   [st EXCEPT !.glTextures = @ \cup {textureID},
                              !.glUnits[glActiveUnit] = 0,
                              !.createdByLoad = @ \cup {textureID},
                              !.loadedTags = @ \cup {tag},
                              !.assigned[tag] = st.m_loadedTextures,
                              !.ret = TRUE, !.slot = st.m_loadedTextures,
                              !.channels = colorChannels]
             IN  IF st.m_loadedTextures < MaxTextures
                 THEN [done EXCEPT
                         !.m_textureIDs[st.m_loadedTextures] =
                             [ID |-> textureID, tag |-> tag],
                         !.m_loadedTextures = @ + 1]
                 ELSE \* m_textureIDs[m_loadedTextures] is past the end of the
                      \* table
                      [done EXCEPT !.m_loadedTextures = @ + 1, !.past = TRUE]

\* CreateGLTexture(filename, tag)
CreateGLTexture(filename, tag) ==
    LET end == CreateGLTextureIn(RegistryNow, filename, tag)
    IN  /\ ~overrun
        /\ log' = <<>>
        /\ UNCHANGED <<m_objectMaterials, m_pShaderManager, shader, glActiveUnit,
                       m_basicMeshes>>
        /\ glTextures' = end.glTextures
        /\ glUnits' = end.glUnits
        /\ stbImages' = end.stbImages
        /\ loadedTags' = end.loadedTags
        /\ assigned' = end.assigned
        /\ createdByLoad' = end.createdByLoad
        /\ last' = Call("CreateGLTexture", tag, end.ret, m_loadedTextures,
                        end.slot, end.channels)
        /\ m_textureIDs' = end.m_textureIDs
        /\ IF end.past
           THEN \* the two stores landed in whatever follows the table,
                \* which may be the counter itself
                /\ overrun' = TRUE
                /\ m_loadedTextures' \in
                     {m_loadedTextures + 1, glGenTextures(glTextures) + 1}
           ELSE /\ m_loadedTextures' = end.m_loadedTextures
                /\ UNCHANGED overrun

\* the loop of BindGLTextures with the unit one too high
\* (GL_TEXTURE0 + i + 1)
RECURSIVE BindLoop_NextUnit(_, _, _)
BindLoop_NextUnit(i, st, b) ==
    IF i < st.m_loadedTextures
    THEN BindLoop_NextUnit(i + 1, st,
             [units |-> [b.units EXCEPT ![i + 1] = st.m_textureIDs[i].ID],
              active |-> i + 1,
              log |-> Append(b.log, <<"BindGLTextures", i + 1>>)])
    ELSE b

\* the loop of BindGLTextures from index i on, over the table and counter
\* of st: b = [units, active, log], the unit bindings, the active unit and
\* the bindings made, each <<"BindGLTextures", unit>>
RECURSIVE BindLoop(_, _, _)
BindLoop(i, st, b) ==
    IF i < st.m_loadedTextures
    THEN BindLoop(i + 1, st,
             [units |-> [b.units EXCEPT ![i] = st.m_textureIDs[i].ID],
              active |-> i,
              log |-> Append(b.log, <<"BindGLTextures", i>>)])
    ELSE b

\* BindGLTextures()
BindGLTextures ==
    LET end == BindLoop(0, RegistryNow,
                        [units |-> glUnits, active |-> glActiveUnit, log |-> <<>>])
    IN  /\ ~overrun
        /\ glUnits' = end.units
        /\ glActiveUnit' = end.active
        /\ last' = Call("BindGLTextures", "", TRUE, m_loadedTextures, -1, 0)
        /\ log' = end.log
        /\ UNCHANGED <<m_textureIDs, m_loadedTextures, m_objectMaterials,
                       m_pShaderManager, glTextures, shader, overrun, loadedTags,
                       assigned, createdByLoad, stbImages, m_basicMeshes>>

\* the loop of DestroyGLTextures from index i on: st = [table, names]
RECURSIVE DestroyLoop(_, _)
DestroyLoop(i, st) ==
    IF i < m_loadedTextures
    THEN LET id == glGenTextures(st.names)
         IN  DestroyLoop(i + 1,
                 [table |-> [st.table EXCEPT ![i].ID = id],
                  names |-> st.names \cup {id}])
    ELSE st

\* DestroyGLTextures()
DestroyGLTextures ==
    LET end == DestroyLoop(0, [table |-> m_textureIDs, names |-> glTextures])
    IN  /\ ~overrun
        /\ m_textureIDs' = end.table
        /\ glTextures' = end.names
        /\ last' = Call("DestroyGLTextures", "", TRUE, m_loadedTextures, -1, 0)
        /\ log' = <<>>
        /\ UNCHANGED <<m_loadedTextures, m_objectMaterials, m_pShaderManager,
                       glActiveUnit, glUnits, shader, overrun, loadedTags,
                       assigned, createdByLoad, stbImages, m_basicMeshes>>

\* the loop of FindTextureID from index on
RECURSIVE FindTextureIDFrom(_, _)
FindTextureIDFrom(index, tag) ==
    IF index < m_loadedTextures
    THEN IF m_textureIDs[index].tag = tag
         THEN m_textureIDs[index].ID
         ELSE FindTextureIDFrom(index + 1, tag)
    ELSE -1

\* FindTextureID(tag)
FindTextureID(tag) == FindTextureIDFrom(0, tag)

\* the loop of FindTextureSlot from index on
RECURSIVE FindTextureSlotFrom(_, _)
FindTextureSlotFrom(index, tag) ==
    IF index < m_loadedTextures
    THEN IF m_textureIDs[index].tag = tag
         THEN index
         ELSE FindTextureSlotFrom(index + 1, tag)
    ELSE -1

\* FindTextureSlot with textureSlot starting at 0 instead of -1
FindTextureSlot_ZeroDefault(tag) ==
    IF FindTextureSlotFrom(0, tag) = -1 THEN 0 ELSE FindTextureSlotFrom(0, tag)

\* FindTextureSlot(tag)
FindTextureSlot(tag) == FindTextureSlotFrom(0, tag)

(***************************************************************************)
(* Material registry.  Floats are in thousandths.                          *)
(***************************************************************************)
OBJECT_MATERIAL(tag, ambientColor, ambientStrength, diffuseColor, specularColor, shininess) ==
    [tag |-> tag, ambientColor |-> ambientColor,
     ambientStrength |-> ambientStrength, diffuseColor |-> diffuseColor,
     specularColor |-> specularColor, shininess |-> shininess]

\* the eight materials DefineObjectMaterials pushes, in its order
DefinedMaterials ==
    << OBJECT_MATERIAL("box1", <<100, 100, 100>>, 100, <<600, 500, 400>>,
                       <<200, 300, 400>>, 500),
       OBJECT_MATERIAL("box2", <<100, 100, 100>>, 100, <<600, 500, 400>>,
                       <<200, 300, 400>>, 500),
       OBJECT_MATERIAL("box3", <<100, 100, 100>>, 100, <<600, 500, 400>>,
                       <<200, 300, 400>>, 500),
       OBJECT_MATERIAL("box4", <<100, 100, 100>>, 100, <<600, 500, 400>>,
                       <<200, 300, 400>>, 500),
       OBJECT_MATERIAL("prism", <<100, 100, 100>>, 100, <<800, 700, 500>>,
                       <<200, 300, 400>>, 500),
       OBJECT_MATERIAL("torus", <<100, 100, 100>>, 100, <<300, 700, 500>>,
                       <<200, 300, 400>>, 700),
       OBJECT_MATERIAL("topPlane", <<100, 100, 100>>, 100, <<900, 900, 900>>,
                       <<500, 500, 500>>, 800),
       OBJECT_MATERIAL("bottomPlane", <<100, 100, 100>>, 100, <<300, 300, 300>>,
                       <<500, 500, 500>>, 300) >>

\* tags handed to SetShaderMaterial: some defined ones and one never defined
MaterialTagArgs == {"box1", "torus", "bottomPlane", "nonexistent"}

\* DefineObjectMaterials()
DefineObjectMaterials ==
    /\ ~overrun
    /\ m_objectMaterials' = m_objectMaterials \o DefinedMaterials
    /\ last' = Call("DefineObjectMaterials", "", TRUE, m_loadedTextures, -1, 0)
    /\ log' = <<>>
    /\ UNCHANGED <<m_textureIDs, m_loadedTextures, m_pShaderManager, glTextures,
                   glActiveUnit, glUnits, shader, overrun, loadedTags, assigned,
                   createdByLoad, stbImages, m_basicMeshes>>

\* the loop of FindMaterial with a copy-and-paste slip: shininess is copied
\* from the ambientStrength field
RECURSIVE FindMaterialFrom_CopySlip(_, _, _)
FindMaterialFrom_CopySlip(index, tag, material) ==
    IF index < Len(m_objectMaterials)
    THEN IF m_objectMaterials[index + 1].tag = tag
         THEN [material EXCEPT
                 !.ambientColor = m_objectMaterials[index + 1].ambientColor,
                 !.ambientStrength = m_objectMaterials[index + 1].ambientStrength,
                 !.diffuseColor = m_objectMaterials[index + 1].diffuseColor,
                 !.specularColor = m_objectMaterials[index + 1].specularColor,
                 !.shininess = m_objectMaterials[index + 1].ambientStrength]
         ELSE FindMaterialFrom_CopySlip(index + 1, tag, material)
    ELSE material

\* the loop of FindMaterial from index on (index counts from 0 as in the code):
\* the out-parameter as the loop leaves it
RECURSIVE FindMaterialFrom(_, _, _)
FindMaterialFrom(index, tag, material) ==
    IF index < Len(m_objectMaterials)
    THEN IF m_objectMaterials[index + 1].tag = tag
         THEN [material EXCEPT
                 !.ambientColor = m_objectMaterials[index + 1].ambientColor,
                 !.ambientStrength = m_objectMaterials[index + 1].ambientStrength,
                 !.diffuseColor = m_objectMaterials[index + 1].diffuseColor,
                 !.specularColor = m_objectMaterials[index + 1].specularColor,
                 !.shininess = m_objectMaterials[index + 1].shininess]
         ELSE FindMaterialFrom(index + 1, tag, material)
    ELSE material

\* FindMaterial(tag, material): the returned flag and the out-parameter.
\* The flag is false only for an empty list; bFound is not what is returned.
FindMaterial(tag, material) ==
    IF Len(m_objectMaterials) = 0
    THEN [ret |-> FALSE, material |-> material]
    ELSE [ret |-> TRUE, material |-> FindMaterialFrom(0, tag, material)]

\* What the local "OBJECT_MATERIAL material;" of SetShaderMaterial may hold
\* before FindMaterial fills it: it is never initialised, so it holds
\* whatever the stack held, for instance what an earlier call left there.
IndeterminateMaterials ==
    {OBJECT_MATERIAL("", <<-1, -1, -1>>, -1, <<-1, -1, -1>>, <<-1, -1, -1>>, -1),
     [DefinedMaterials[1] EXCEPT !.tag = ""],
     [DefinedMaterials[6] EXCEPT !.tag = ""],
     [DefinedMaterials[8] EXCEPT !.tag = ""]}

(***************************************************************************)
(* Shader parameter binder.  A binder operation takes and returns          *)
(* ctx = [shader, log]: the uniform store and the writes and draws issued  *)
(* so far by the running call, each a pair <<operation, key>>.             *)
(***************************************************************************)
Write(ctx, op, key, value) ==
    [shader |-> [ctx.shader EXCEPT ![key] = value],
     log |-> Append(ctx.log, <<op, key>>)]

\* SetTransformations: modelView = translation * rotationX * rotationY *
\* rotationZ * scale, kept as the product's factors in order
SetTransformations(ctx, scaleXYZ, XrotationDegrees, YrotationDegrees, ZrotationDegrees, positionXYZ) ==
    LET modelView == << <<"translate", positionXYZ>>,
                        <<"rotateX", XrotationDegrees>>,
                        <<"rotateY", YrotationDegrees>>,
                        <<"rotateZ", ZrotationDegrees>>,
                        <<"scale", scaleXYZ>> >>
    IN  IF NULL # m_pShaderManager
        THEN Write(ctx, "SetTransformations", "model", modelView)
        ELSE ctx

\* SetShaderColor without the write of bUseTexture
SetShaderColor_KeepsFlag(ctx, redColorValue, greenColorValue, blueColorValue, alphaValue) ==
    IF NULL # m_pShaderManager
    THEN Write(ctx, "SetShaderColor", "objectColor",
               <<redColorValue, greenColorValue, blueColorValue, alphaValue>>)
    ELSE ctx

\* SetShaderColor
SetShaderColor(ctx, redColorValue, greenColorValue, blueColorValue, alphaValue) ==
    LET currentColor == <<redColorValue, greenColorValue, blueColorValue,
                          alphaValue>>
    IN  IF NULL # m_pShaderManager
        THEN Write(Write(ctx, "SetShaderColor", "bUseTexture", FALSE),
                   "SetShaderColor", "objectColor", currentColor)
        ELSE ctx

\* SetShaderTexture
SetShaderTexture(ctx, textureTag) ==
    IF NULL # m_pShaderManager
    THEN LET textureID == FindTextureSlot(textureTag)
         IN  Write(Write(ctx, "SetShaderTexture", "bUseTexture", TRUE),
                   "SetShaderTexture", "objectTexture", textureID)
    ELSE ctx

\* SetShaderMaterial; uninit is what the local material holds at its
\* declaration
SetShaderMaterial(ctx, materialTag, uninit) ==
    IF Len(m_objectMaterials) > 0
    THEN LET found == FindMaterial(materialTag, uninit)
             material == found.material
         IN  IF found.ret = TRUE
             THEN Write(Write(Write(Write(Write(ctx,
                      "SetShaderMaterial", "ambientColor", material.ambientColor),
                      "SetShaderMaterial", "ambientStrength", material.ambientStrength),
                      "SetShaderMaterial", "diffuseColor", material.diffuseColor),
                      "SetShaderMaterial", "specularColor", material.specularColor),
                      "SetShaderMaterial", "shininess", material.shininess)
             ELSE ctx
    ELSE ctx

(***************************************************************************)
(* Scene composer.                                                         *)
(***************************************************************************)
RenderObject(mesh, scaleXYZ, Xrot, Yrot, Zrot, positionXYZ, color, textureTag, materialTag) ==
    [mesh |-> mesh, scaleXYZ |-> scaleXYZ, Xrot |-> Xrot, Yrot |-> Yrot,
     Zrot |-> Zrot, positionXYZ |-> positionXYZ, color |-> color,
     textureTag |-> textureTag, materialTag |-> materialTag]

\* the objects RenderScene draws, in the order of its statements
SceneObjects ==
    << RenderObject("Plane", <<20000, 1000, 10000>>, 0, 0, 0, <<0, 0, 0>>,
                    <<1000, 1000, 1000, 1000>>, "ground", "bottomPlane"),
       RenderObject("Plane", <<20000, 1000, 10000>>, 90000, 0, 0,
                    <<0, 9000, -10000>>,
                    <<1000, 1000, 1000, 1000>>, "sky", "topPlane"),
       RenderObject("Torus", <<10000, 6000, 2000>>, 90000, 0, 0, <<0, 0, 2000>>,
                    <<243, 651, 286, 1000>>, "bush", "torus"),
       RenderObject("Box", <<7000, 4000, 3000>>, 0, 0, 0, <<0, 1000, 2500>>,
                    <<871, 804, 675, 1000>>, "stone", "box1"),
       RenderObject("Box", <<5000, 2500, 3000>>, 0, 0, 0, <<0, 3500, 2500>>,
                    <<871, 804, 675, 1000>>, "stone", "box2"),
       RenderObject("Box", <<3500, 3000, 2500>>, 0, 0, 0, <<0, 6000, 2000>>,
                    <<871, 804, 675, 1000>>, "stone", "box3"),
       RenderObject("Box", <<2000, 1000, 2500>>, 0, 0, 0, <<0, 8000, 2000>>,
                    <<871, 804, 675, 1000>>, "stone", "box4"),
       RenderObject("Prism", <<1750, 2000, 2300>>, -90000, 0, 0,
                    <<0, 9300, 2000>>,
                    <<871, 804, 675, 1000>>, "stone", "prism") >>

\* a draw that is left out when the object's texture tag was not resolved
DrawMesh_NeedsTexture(ctx, mesh) ==
    IF ctx.shader.objectTexture = -1
    THEN ctx
    ELSE [shader |-> ctx.shader, log |-> Append(ctx.log, <<"Draw", mesh>>)]

\* m_basicMeshes->Draw...Mesh()
DrawMesh(ctx, mesh) ==
    [shader |-> ctx.shader, log |-> Append(ctx.log, <<"Draw", mesh>>)]

\* one object's block with the texture chosen before the colour is set
RenderOne_TextureFirst(ctx, obj, uninit) ==
    DrawMesh(
        SetShaderMaterial(
            SetShaderColor(
                SetShaderTexture(
                    SetTransformations(ctx, obj.scaleXYZ, obj.Xrot, obj.Yrot,
                                       obj.Zrot, obj.positionXYZ),
                    obj.textureTag),
                obj.color[1], obj.color[2], obj.color[3], obj.color[4]),
            obj.materialTag, uninit),
        obj.mesh)

\* one object's block of RenderScene: transform, colour, texture, material,
\* draw
RenderOne(ctx, obj, uninit) ==
    DrawMesh(
        SetShaderMaterial(
            SetShaderTexture(
                SetShaderColor(
                    SetTransformations(ctx, obj.scaleXYZ, obj.Xrot, obj.Yrot,
                                       obj.Zrot, obj.positionXYZ),
                    obj.color[1], obj.color[2], obj.color[3], obj.color[4]),
                obj.textureTag),
            obj.materialTag, uninit),
        obj.mesh)

\* the blocks of RenderScene from the i-th object on.  (Len(ctx.log) >= 0
\* is always true; it has TLC evaluate ctx before it descends.)
RECURSIVE RenderFrom(_, _, _)
RenderFrom(i, ctx, uninit) ==
    IF i <= Len(SceneObjects) /\ Len(ctx.log) >= 0
    THEN RenderFrom(i + 1, RenderOne(ctx, SceneObjects[i], uninit), uninit)
    ELSE ctx

\* RenderScene()
RenderScene ==
    /\ ~overrun
    /\ \E uninit \in IndeterminateMaterials :
         LET end == RenderFrom(1, [shader |-> shader, log |-> <<>>], uninit)
         IN  /\ shader' = end.shader
             /\ log' = end.log
    /\ last' = Call("RenderScene", "", TRUE, m_loadedTextures, -1, 0)
    /\ UNCHANGED <<m_textureIDs, m_loadedTextures, m_objectMaterials,
                   m_pShaderManager, glTextures, glActiveUnit, glUnits, overrun,
                   loadedTags, assigned, createdByLoad, stbImages, m_basicMeshes>>

\* the meshes PrepareScene loads
BasicMeshes == {"Plane", "Torus", "Box", "TaperedCylinder", "Prism"}

\* what the decoder may find at each of the four paths of LoadSceneTextures
SceneFiles == [1 .. 4 -> {"rgb.jpg", "gray.png", "absent.jpg"}]

\* the loads of LoadSceneTextures from the i-th on: p = [st, log], the
\* registry record and the calls made, each <<"CreateGLTexture", tag>>
RECURSIVE LoadFrom(_, _, _)
LoadFrom(i, files, p) ==
    IF i <= Len(SceneTextureTags) /\ Len(p.log) >= 0
    THEN LoadFrom(i + 1, files,
             [st |-> CreateGLTextureIn(p.st, files[i], SceneTextureTags[i]),
              log |-> Append(p.log, <<"CreateGLTexture", SceneTextureTags[i]>>)])
    ELSE p

\* LoadSceneTextures(): the four loads, their results dropped, then
\* BindGLTextures.  files[i] is what is found at the i-th path.
LoadSceneTextures(files) ==
    LET loaded == LoadFrom(1, files, [st |-> RegistryNow, log |-> <<>>])
        bound == BindLoop(0, loaded.st,
                     [units |-> loaded.st.glUnits, active |-> glActiveUnit,
                      log |-> loaded.log])
    IN  [st |-> [loaded.st EXCEPT !.glUnits = bound.units],
         active |-> bound.active, log |-> bound.log]

\* PrepareScene(): LoadSceneTextures, then the five meshes.  Explored while
\* the four loads fit in the table.
PrepareScene ==
    /\ ~overrun
    /\ m_loadedTextures + Len(SceneTextureTags) <= MaxTextures
    /\ \E files \in SceneFiles :
         LET end == LoadSceneTextures(files)
         IN  /\ m_textureIDs' = end.st.m_textureIDs
             /\ m_loadedTextures' = end.st.m_loadedTextures
             /\ glTextures' = end.st.glTextures
             /\ glUnits' = end.st.glUnits
             /\ glActiveUnit' = end.active
             /\ stbImages' = end.st.stbImages
             /\ loadedTags' = end.st.loadedTags
             /\ assigned' = end.st.assigned
             /\ createdByLoad' = end.st.createdByLoad
             /\ log' = end.log
    /\ m_basicMeshes' = BasicMeshes
    /\ last' = Call("PrepareScene", "", TRUE, m_loadedTextures, -1, 0)
    /\ UNCHANGED <<m_objectMaterials, m_pShaderManager, shader, overrun>>

(***************************************************************************)
(* The binder operations called on their own.                              *)
(***************************************************************************)
Colors == { <<1000, 0, 0, 1000>>, <<871, 804, 675, 1000>> }

BinderCall(op, tag, end) ==
    /\ ~overrun
    /\ shader' = end.shader
    /\ log' = end.log
    /\ last' = Call(op, tag, TRUE, m_loadedTextures, -1, 0)
    /\ UNCHANGED <<m_textureIDs, m_loadedTextures, m_objectMaterials,
                   m_pShaderManager, glTextures, glActiveUnit, glUnits, overrun,
                   loadedTags, assigned, createdByLoad, stbImages, m_basicMeshes>>

CallSetShaderColor ==
    \E c \in Colors :
        BinderCall("SetShaderColor", "",
            SetShaderColor([shader |-> shader, log |-> <<>>],
                           c[1], c[2], c[3], c[4]))

CallSetShaderTexture ==
    \E tag \in TextureTagArgs :
        BinderCall("SetShaderTexture", tag,
            SetShaderTexture([shader |-> shader, log |-> <<>>], tag))

CallSetShaderMaterial ==
    \E tag \in MaterialTagArgs, uninit \in IndeterminateMaterials :
        BinderCall("SetShaderMaterial", tag,
            SetShaderMaterial([shader |-> shader, log |-> <<>>], tag, uninit))

(***************************************************************************)
(* Specifications.  Spec explores every operation; the others explore the  *)
(* operations of one component, so that its states can be covered with     *)
(* wider inputs.                                                           *)
(***************************************************************************)
\* room left among the texture names the model hands out
NamesLeft(n) == Cardinality(glTextures) + n <= MaxNames

\* a load of any file under any tag
Load ==
    \E filename \in ImageFiles, tag \in TextureTags :
        /\ m_loadedTextures < MaxLoads
        /\ NamesLeft(1)
        /\ CreateGLTexture(filename, tag)

\* a load of a file that decodes
LoadDecoded ==
    \E tag \in TextureTags :
        /\ m_loadedTextures < MaxLoads
        /\ CreateGLTexture("rgb.jpg", tag)

\* a load under one tag, with no bound on the number of loads; texture
\* names that were generated and never registered are bounded instead
LoadStone ==
    \E filename \in ImageFiles :
        /\ Cardinality(glTextures) <= m_loadedTextures + MaxLeaked
        /\ CreateGLTexture(filename, "stone")

Bind == BindGLTextures

Teardown == NamesLeft(m_loadedTextures) /\ DestroyGLTextures

Define == Len(m_objectMaterials) < MaxDefines * Len(DefinedMaterials)
          /\ DefineObjectMaterials

\* PrepareScene while the model has texture names and loads left
Prepare ==
    /\ m_loadedTextures < MaxLoads
    /\ NamesLeft(Len(SceneTextureTags))
    /\ PrepareScene

Next ==
    \/ Load
    \/ Prepare
    \/ Bind
    \/ Teardown
    \/ Define
    \/ CallSetShaderColor
    \/ CallSetShaderTexture
    \/ CallSetShaderMaterial
    \/ RenderScene

Spec == Init /\ [][Next]_vars

\* the texture registry on its own
NextRegistry ==
    \/ Load
    \/ Bind
    \/ Teardown

SpecRegistry == Init /\ [][NextRegistry]_vars

\* the texture registry filled up and beyond
NextCapacity == LoadStone

SpecCapacity == Init /\ [][NextCapacity]_vars

\* the binder operations over the registries
NextBinder ==
    \/ LoadDecoded
    \/ Define
    \/ CallSetShaderColor
    \/ CallSetShaderTexture
    \/ CallSetShaderMaterial

SpecBinder == Init /\ [][NextBinder]_vars

\* the composer over the registries
NextScene ==
    \/ LoadDecoded
    \/ Define
    \/ RenderScene

SpecScene == Init /\ [][NextScene]_vars

\* the composer from preparation on
NextPrepare ==
    \/ Prepare
    \/ RenderScene

SpecPrepare == Init /\ [][NextPrepare]_vars

(***************************************************************************)
(* Properties.  The definitions below state what is checked; they read the *)
(* state and the record of the last call and are no part of the program.   *)
(***************************************************************************)
\* the slots below m_loadedTextures whose entry carries the tag
SlotsOf(tag) == {i \in Slots : i < m_loadedTextures /\ m_textureIDs[i].tag = tag}
SetMin(S) == CHOOSE x \in S : \A y \in S : x <= y
\* the indices of the materials that carry the tag
MaterialsOf(tag) ==
    {i \in 1 .. Len(m_objectMaterials) : m_objectMaterials[i].tag = tag}
MaterialKeys ==
    {"ambientColor", "ambientStrength", "diffuseColor", "specularColor",
     "shininess"}
MaterialParams(sh) ==
    <<sh.ambientColor, sh.ambientStrength, sh.diffuseColor, sh.specularColor,
      sh.shininess>>
DecodedOk(call) == call.op = "CreateGLTexture" /\ call.channels \in {3, 4}

\* C1: a load whose image decodes with 3 or 4 channels raises the occupied
\* count by exactly one, and from then on FindTextureSlot(tag) is the slot
\* that the latest such load of the tag wrote, also when the tag was
\* already in the table.
C1_LoadAssignsSlot ==
    /\ DecodedOk(last) => m_loadedTextures = last.pre + 1
    /\ \A t \in TextureTags :
         assigned[t] # -1 => FindTextureSlot(t) = assigned[t]

\* C2: the table never holds more than MaxTextures entries, and a load
\* that finds it full returns false and writes no entry.
C2_CapacityRespected ==
    /\ m_loadedTextures <= MaxTextures
    /\ (DecodedOk(last) /\ last.pre >= MaxTextures) =>
           /\ last.ret = FALSE
           /\ last.slot = -1
           /\ m_loadedTextures = last.pre

\* C3: SetShaderMaterial with a tag that no material carries leaves the
\* five material parameters as they were, whether or not the material
\* list is empty.
C3_UnknownMaterialKeepsParams ==
    [][ (last'.op = "SetShaderMaterial" /\ MaterialsOf(last'.tag) = {})
            => MaterialParams(shader') = MaterialParams(shader) ]_vars

\* C4: SetShaderMaterial with a tag that some material carries writes
\* exactly the five material parameters, each once, and each value is the
\* field of the first material in insertion order that carries the tag.
C4_KnownMaterialWritesFive ==
    (last.op = "SetShaderMaterial" /\ MaterialsOf(last.tag) # {}) =>
        LET first == m_objectMaterials[SetMin(MaterialsOf(last.tag))]
        IN  /\ Len(log) = 5
            /\ {log[i][2] : i \in 1 .. Len(log)} = MaterialKeys
            /\ \A i \in 1 .. Len(log) : log[i][1] = "SetShaderMaterial"
            /\ shader.ambientColor = first.ambientColor
            /\ shader.ambientStrength = first.ambientStrength
            /\ shader.diffuseColor = first.diffuseColor
            /\ shader.specularColor = first.specularColor
            /\ shader.shininess = first.shininess

\* C4 witness: the material found is the last of the list (bottomPlane),
\* written over the parameters another material had left
C4_Witness ==
    /\ last.op = "SetShaderMaterial"
    /\ last.tag = "bottomPlane"
    /\ MaterialsOf("bottomPlane") # {}
    /\ shader.shininess = 300

\* the positions of the draw calls in the log of the last call
DrawIndices == {i \in 1 .. Len(log) : log[i][1] = "Draw"}
\* the positions between the draw call before position d and d itself
Before(d) ==
    LET earlier == {i \in DrawIndices : i < d}
    IN  (IF earlier = {} THEN 1 ELSE SetMax(earlier) + 1) .. (d - 1)
\* the positions before draw call d at which op wrote key
WritesOf(d, op, key) == {i \in Before(d) : log[i] = <<op, key>>}
\* every position of A is before every position of B
Precede(A, B) == \A a \in A, b \in B : a < b
\* what the frame has in common under the claim as stated and as amended
FrameShape(d) ==
    /\ Cardinality(WritesOf(d, "SetTransformations", "model")) = 1
    /\ Cardinality(WritesOf(d, "SetShaderMaterial", "shininess")) <= 1
    /\ Precede(WritesOf(d, "SetTransformations", "model"),
               WritesOf(d, "SetShaderColor", "objectColor")
                   \cup WritesOf(d, "SetShaderTexture", "objectTexture"))
    /\ Precede(WritesOf(d, "SetShaderColor", "objectColor")
                   \cup WritesOf(d, "SetShaderTexture", "objectTexture"),
               {i \in Before(d) : log[i][1] = "SetShaderMaterial"})

\* C5 as stated: RenderScene issues one draw call per authored object, and
\* before each draw call there is exactly one transform write, exactly one
\* appearance write (SetShaderColor or SetShaderTexture, not both) and at
\* most one material write, in that order.
C5_OneAppearanceWrite ==
    last.op = "RenderScene" =>
        /\ Cardinality(DrawIndices) = Len(SceneObjects)
        /\ Len(log) \in DrawIndices
        /\ \A d \in DrawIndices :
             /\ FrameShape(d)
             /\ Cardinality(WritesOf(d, "SetShaderColor", "objectColor"))
                  + Cardinality(WritesOf(d, "SetShaderTexture", "objectTexture"))
                  = 1

\* C5 as amended: RenderScene issues one draw call per authored object, and
\* before each draw call there is exactly one transform write, then one
\* SetShaderColor write and after it one SetShaderTexture write (both, for
\* every object), then at most one material write.
C5_ColorThenTexture ==
    last.op = "RenderScene" =>
        /\ Cardinality(DrawIndices) = Len(SceneObjects)
        /\ Len(log) \in DrawIndices
        /\ \A d \in DrawIndices :
             /\ FrameShape(d)
             /\ Cardinality(WritesOf(d, "SetShaderColor", "objectColor")) = 1
             /\ Cardinality(WritesOf(d, "SetShaderTexture", "objectTexture")) = 1
             /\ Precede(WritesOf(d, "SetShaderColor", "objectColor"),
                        WritesOf(d, "SetShaderTexture", "objectTexture"))

\* C5 witness: a frame drawn with the materials defined, so that every
\* object has its material write
C5_Witness ==
    /\ last.op = "RenderScene"
    /\ Cardinality(DrawIndices) = 8
    /\ \A d \in DrawIndices :
         Cardinality(WritesOf(d, "SetShaderMaterial", "shininess")) = 1

\* C6: after SetShaderTexture, bUseTexture set means that objectTexture is
\* the index of an occupied slot, and a tag that is in no slot leaves
\* bUseTexture cleared.
C6_NoInvalidSampler ==
    last.op = "SetShaderTexture" =>
        /\ shader.bUseTexture = TRUE =>
               (0 <= shader.objectTexture /\ shader.objectTexture < m_loadedTextures)
        /\ SlotsOf(last.tag) = {} => shader.bUseTexture = FALSE

\* C7: a load whose file does not decode, or decodes with a channel count
\* other than 3 and 4, returns false and leaves m_loadedTextures and every
\* entry of the table as they were; the successful load that follows it
\* writes the slot the failed one would have written.
C7_FailedLoadKeepsRegistry ==
    [][ /\ (last'.op = "CreateGLTexture" /\ last'.channels \notin {3, 4}) =>
               /\ last'.ret = FALSE
               /\ m_loadedTextures' = m_loadedTextures
               /\ m_textureIDs' = m_textureIDs
        /\ (last.op = "CreateGLTexture" /\ last.ret = FALSE
               /\ last'.op = "CreateGLTexture" /\ last'.ret = TRUE) =>
               /\ last'.slot = last.pre
               /\ m_textureIDs'[last.pre].tag = last'.tag
               /\ m_loadedTextures' = last.pre + 1 ]_vars

\* C7 witness: a load failed on the channel count (after its texture was
\* generated) with the table not empty
C7_Witness ==
    /\ last.op = "CreateGLTexture"
    /\ last.ret = FALSE
    /\ last.channels = 1
    /\ m_loadedTextures > 0

\* C8: SetShaderTexture with a tag that is in the table leaves bUseTexture
\* set and objectTexture at the (first) slot of the tag, and SetShaderColor
\* leaves bUseTexture cleared, whatever calls came before.
C8_LastCallDecides ==
    /\ (last.op = "SetShaderTexture" /\ SlotsOf(last.tag) # {}) =>
           /\ shader.bUseTexture = TRUE
           /\ shader.objectTexture = SetMin(SlotsOf(last.tag))
    /\ last.op = "SetShaderColor" => shader.bUseTexture = FALSE

\* C8 witness: SetShaderColor(1, 0, 0, 1) came first, then SetShaderTexture
\* chose the texture of slot 1
C8_Witness ==
    /\ last.op = "SetShaderTexture"
    /\ shader.objectColor = <<1000, 0, 0, 1000>>
    /\ shader.objectTexture = 1
    /\ SlotsOf(last.tag) = {1}

\* C9: for a tag that was never the tag of a successful load,
\* FindTextureSlot and FindTextureID return -1.
C9_UnloadedTagNotFound ==
    \A t \in TextureTagArgs \ loadedTags :
        FindTextureSlot(t) = -1 /\ FindTextureID(t) = -1

\* C9 witness: the tag of a failed load is still not loaded while another
\* tag is in the table
C9_Witness ==
    /\ last.op = "CreateGLTexture"
    /\ last.ret = FALSE
    /\ last.tag \notin loadedTags
    /\ m_loadedTextures > 0

\* C10: after DestroyGLTextures no texture that a load created is still
\* allocated, and a second DestroyGLTextures changes neither the table nor
\* the allocated textures.
C10_TeardownReleases ==
    [][ /\ last'.op = "DestroyGLTextures" => createdByLoad' \cap glTextures' = {}
        /\ (last.op = "DestroyGLTextures" /\ last'.op = "DestroyGLTextures") =>
               (m_textureIDs' = m_textureIDs /\ glTextures' = glTextures) ]_vars

\* C11: no two occupied entries of the table carry the same tag, whatever
\* loads came before.
C11_TagsUnique ==
    \A i, j \in Slots :
        (i < j /\ j < m_loadedTextures) => m_textureIDs[i].tag # m_textureIDs[j].tag

\* the positions in the log of the last call at which op was logged
LoggedAt(op) == {i \in 1 .. Len(log) : log[i][1] = op}

\* C12: RenderScene issues draw calls only once PrepareScene has returned
\* (the meshes are loaded); called before, it issues none.
C12_RenderOnlyWhenReady ==
    (last.op = "RenderScene" /\ m_basicMeshes = {}) => DrawIndices = {}

\* C13: when PrepareScene returns, whichever of the four loads failed,
\* every occupied slot i has the ID of entry i bound to unit i, BindGLTextures
\* bound the units below m_loadedTextures and no other, and all four loads
\* ran before the first binding; and from then on, through RenderScene, every
\* slot that FindTextureSlot returns for a tag is a unit bound to that
\* entry's ID.
C13_UnitsMatchSlots ==
    /\ last.op = "PrepareScene" =>
           /\ {log[i][2] : i \in LoggedAt("BindGLTextures")}
                  = {u \in Slots : u < m_loadedTextures}
           /\ Cardinality(LoggedAt("CreateGLTexture")) = Len(SceneTextureTags)
           /\ Precede(LoggedAt("CreateGLTexture"), LoggedAt("BindGLTextures"))
    /\ last.op \in {"PrepareScene", "RenderScene"} /\ m_basicMeshes # {} =>
           /\ \A i \in Slots :
                  i < m_loadedTextures => glUnits[i] = m_textureIDs[i].ID
           /\ \A k \in 1 .. Len(SceneTextureTags) :
                  LET slot == FindTextureSlot(SceneTextureTags[k])
                  IN  slot # -1 => glUnits[slot] = m_textureIDs[slot].ID

\* C13 witness: a frame rendered after a PrepareScene in which two loads
\* failed, one of them on its channel count, and "sky" went to slot 1
C13_Witness ==
    /\ last.op = "RenderScene"
    /\ m_basicMeshes # {}
    /\ m_loadedTextures = 2
    /\ stbImages = 1
    /\ FindTextureSlot("sky") = 1
    /\ glUnits[1] = m_textureIDs[1].ID

\* the meshes drawn by the last call, in the order of their draw calls
RECURSIVE DrawnFrom(_)
DrawnFrom(i) ==
    IF i > Len(log) THEN <<>>
    ELSE IF log[i][1] = "Draw" THEN <<log[i][2]>> \o DrawnFrom(i + 1)
    ELSE DrawnFrom(i + 1)

\* the meshes of the authored objects, in the authored order
AuthoredMeshes ==
    <<"Plane", "Plane", "Torus", "Box", "Box", "Box", "Box", "Prism">>

\* C14: whatever the texture table and the material list hold, RenderScene
\* returns having drawn every object, in the order plane, plane, torus, box,
\* box, box, box, prism; a texture tag or a material tag that is not found
\* neither stops the frame nor leaves a draw out.
C14_DrawsEveryObject == last.op = "RenderScene" => DrawnFrom(1) = AuthoredMeshes

\* C14 witness: a frame in which "sky" was in no slot and "topPlane" was no
\* defined material, while "stone" was loaded, and the last object was drawn
C14_Witness ==
    /\ last.op = "RenderScene"
    /\ FindTextureSlot("sky") = -1
    /\ MaterialsOf("topPlane") = {}
    /\ FindTextureSlot("stone") # -1
    /\ Len(log) > 0
    /\ log[Len(log)] = <<"Draw", "Prism">>

\* C15: when CreateGLTexture has returned, with true or with false, the
\* pixel buffer that stbi_load gave it has been freed: no decoded image is
\* held.
C15_PixelBufferFreed == stbImages = 0

====
